---- MODULE Spec2Model ----
(***************************************************************************)
(* Model of the Network Analyzer devtools panel (src/panel.js) and of the *)
(* background script that feeds it (listing in src/REQUIREMENTS.md).      *)
(*                                                                         *)
(* Strings are modelled as sequences of tokens, so that URL parsing,      *)
(* key concatenation and key.split('::') are computed, not assumed.       *)
(* An optional JavaScript value is a sequence of length 0 (undefined) or  *)
(* 1 (the value).                                                          *)
(***************************************************************************)
EXTENDS Integers, Sequences, FiniteSets, TLC

\* ------------------------------------------------------------------ bounds
\* Outstanding setTimeout retries the model lets accumulate.
MaxTimers == 2
\* webRequest/devtools events (network and content channel) in one run.
MaxEvents == 3
\* Tokens in a string handed to normalizeUrl on its own.
MaxUrlLen == 4
\* Records in a store handed to the filter evaluator on its own.
MaxStore == 4
\* Records in a store the free-text query runs over.
MaxQueryStore == 2

\* ------------------------------------------------------- program constants
\* panel.js:225, "return timeDiff < 10000"
ToleranceMs == 10000
\* panel.js:222, "harRequest.time * 1000"
MsPerUnit == 1000

\* ------------------------------------------------------------ string model
None == <<>>
Some(v) == <<v>>
IsSome(o) == Len(o) = 1
Val(o) == o[1]

Min(S) == CHOOSE x \in S : \A y \in S : x <= y

\* const x = v; F(x): v is evaluated once and F works on its value
With(v, F(_)) == CHOOSE r \in {F(x) : x \in {v}} : TRUE

Origin == "https://a.com"
Origins == {Origin}
\* tokens a URL path may hold
PathTokens == {"/", "x", "y", "::"}
QueryToken == "?q"
HashToken == "#f"
Sep == "::"

\* new URL(url) succeeds: an origin, then nothing, a path, a query or a
\* fragment.  An origin followed by '::' is an invalid port; anything that
\* does not start with an origin is a relative reference: both throw.
UrlParses(url) ==
    /\ Len(url) >= 1
    /\ url[1] \in Origins
    /\ (Len(url) = 1 \/ url[2] \in {"/", QueryToken, HashToken})

\* index of the first token after the path
PathEnd(url) ==
    LET S == {i \in 2..Len(url) : url[i] \notin PathTokens}
    IN  IF S = {} THEN Len(url) + 1 ELSE Min(S)

\* urlObj.pathname: an empty path reads back as "/"
Pathname(url) ==
    LET p == SubSeq(url, 2, PathEnd(url) - 1)
    IN  IF p = <<>> THEN <<"/">> ELSE p

\* urlObj.search: the query up to the fragment, "" when there is none
Search(url) ==
    LET b == PathEnd(url)
    IN  IF b <= Len(url) /\ url[b] = QueryToken
        THEN LET H == {j \in b..Len(url) : url[j] = HashToken}
                 e == IF H = {} THEN Len(url) + 1 ELSE Min(H)
             IN  SubSeq(url, b, e - 1)
        ELSE <<>>

\* normalizeUrl whose catch branch returns the empty string
normalizeUrl_EmptyOnFail(url) ==
    IF UrlParses(url)
    THEN LET path == Pathname(url)
             stripped == IF path # <<"/">> /\ path[Len(path)] = "/"
                         THEN SubSeq(path, 1, Len(path) - 1)
                         ELSE path
         IN  <<url[1]>> \o stripped \o Search(url)
    ELSE <<>>

\* normalizeUrl without the trailing-slash removal
normalizeUrl_KeepSlash(url) ==
    IF UrlParses(url) THEN <<url[1]>> \o Pathname(url) \o Search(url) ELSE url

normalizeUrl(url) ==
    IF UrlParses(url)
    THEN LET path == Pathname(url)
             stripped == IF path # <<"/">> /\ path[Len(path)] = "/"
                         THEN SubSeq(path, 1, Len(path) - 1)
                         ELSE path
         IN  <<url[1]>> \o stripped \o Search(url)
    ELSE url

\* String.prototype.toUpperCase on one token
Upper(t) ==
    CASE t = "get" -> "GET"
      [] t = "post" -> "POST"
      [] t = "x" -> "X"
      [] t = "y" -> "Y"
      [] OTHER -> t

UpperSeq(s) == [i \in 1..Len(s) |-> Upper(s[i])]

\* (method || 'GET').toUpperCase(); the empty string stands for an absent method
MethodOf(method) == IF method = "" THEN "GET" ELSE Upper(method)

\* `${url}::${method}`
MakeKey(url, method) == url \o <<Sep, method>>

\* the spec's matchKey(url, method)
matchKey(url, method) == MakeKey(normalizeUrl(url), MethodOf(method))

\* String.prototype.split('::')
RECURSIVE Split(_)
Split(s) ==
    LET S == {i \in 1..Len(s) : s[i] = Sep}
    IN  IF S = {} THEN <<s>>
        ELSE LET i == Min(S)
             IN  <<SubSeq(s, 1, i - 1)>> \o Split(SubSeq(s, i + 1, Len(s)))

\* parts[n] of a split, None when the array is shorter (undefined)
Part(parts, n) == IF n <= Len(parts) THEN parts[n] ELSE <<>>

Abs(n) == IF n < 0 THEN -n ELSE n

\* ------------------------------------------------------------ data domains
Ids == {"r1", "r2"}
Tabs == {"headers", "response", "curl"}

U_x == <<Origin, "/", "x">>
U_xSlash == <<Origin, "/", "x", "/">>
U_colons == <<Origin, "/", "x", Sep, "y">>

\* what the network layer reports of a request: url, method, resource type
Endpoints ==
    { [url |-> U_x, method |-> "GET", type |-> "xmlhttprequest"],
      [url |-> U_xSlash, method |-> "GET", type |-> "xmlhttprequest"],
      [url |-> U_colons, method |-> "GET", type |-> "script"] }

\* webRequest timeStamp values (ms) and HAR entry `time` values
ClockValues == {1000, 11000}
HarTimes == {1, 11}

Body_text == <<"a", "b", "a">>
Body_json == <<"{", "k", "}">>
Contents ==
    { [body |-> Body_text, mimeType |-> "text/plain"],
      [body |-> Body_json, mimeType |-> "application/json"] }

Headers_sent == <<"accept">>
Headers_received == <<"content-type">>
StatusCodes == {200}

\* --------------------------------------------------------------- records
EmptySearch ==
    [searchTerm |-> <<>>, matches |-> <<>>, currentMatchIndex |-> -1,
     originalText |-> <<>>]

EmptyFilters ==
    [search |-> <<>>, method |-> "", status |-> "", type |-> "", url |-> <<>>]

\* the object literal {} with every property the panel reads left absent
EmptyObject ==
    [requestId |-> "", url |-> <<>>, method |-> "", type |-> "",
     timeStamp |-> 0, timestamp |-> None, statusCode |-> None,
     requestHeaders |-> None, responseHeaders |-> None, error |-> FALSE,
     responseBody |-> None, responseBodyMimeType |-> None,
     responseBodyUnavailable |-> FALSE, completed |-> FALSE]

\* webRequest `details` of one event
Details(id, ep, ts) ==
    [requestId |-> id, url |-> ep.url, method |-> ep.method, type |-> ep.type,
     timeStamp |-> ts, statusCode |-> None, requestHeaders |-> None,
     responseHeaders |-> None, error |-> FALSE]

\* { ...a, ...b } for a message payload b: the properties b has overwrite a's
SpreadData(a, b) ==
    [a EXCEPT !.requestId = b.requestId, !.url = b.url, !.method = b.method,
              !.type = b.type, !.timeStamp = b.timeStamp,
              !.statusCode = IF IsSome(b.statusCode) THEN b.statusCode ELSE @,
              !.requestHeaders =
                  IF IsSome(b.requestHeaders) THEN b.requestHeaders ELSE @,
              !.responseHeaders =
                  IF IsSome(b.responseHeaders) THEN b.responseHeaders ELSE @,
              !.error = IF b.error THEN TRUE ELSE @]

\* position of id in the insertion-ordered Map, 0 when absent
IndexOf(reqs, id) ==
    LET S == {i \in 1..Len(reqs) : reqs[i].requestId = id}
    IN  IF S = {} THEN 0 ELSE Min(S)

Has(reqs, id) == IndexOf(reqs, id) # 0

\* Map.set: an existing key keeps its position, a new key goes last
MapSet(reqs, id, rec) ==
    IF Has(reqs, id) THEN [reqs EXCEPT ![IndexOf(reqs, id)] = rec]
    ELSE Append(reqs, rec)

PendingIndex(pend, key) ==
    LET S == {i \in 1..Len(pend) : pend[i].key = key}
    IN  IF S = {} THEN 0 ELSE Min(S)

\* every set adds an entry
PendingSet_Append(pend, key, entry) == Append(pend, entry)

PendingSet(pend, key, entry) ==
    IF PendingIndex(pend, key) # 0
    THEN [pend EXCEPT ![PendingIndex(pend, key)] = entry]
    ELSE Append(pend, entry)

RemoveAt(s, i) == SubSeq(s, 1, i - 1) \o SubSeq(s, i + 1, Len(s))

PendingDelete(pend, key) ==
    IF PendingIndex(pend, key) # 0 THEN RemoveAt(pend, PendingIndex(pend, key))
    ELSE pend

HasBody(req) == IsSome(req.responseBody)

\* ------------------------------------------------- filter/search evaluator
Lower(t) ==
    CASE t = "GET" -> "get"
      [] t = "POST" -> "post"
      [] t = "X" -> "x"
      [] t = "Y" -> "y"
      [] t = "A" -> "a"
      [] t = "B" -> "b"
      [] OTHER -> t

LowerSeq(s) == [i \in 1..Len(s) |-> Lower(s[i])]

\* String.prototype.includes
Includes(text, pat) ==
    \E i \in 1..(Len(text) - Len(pat) + 1) :
        SubSeq(text, i, i + Len(pat) - 1) = pat

\* new RegExp(p, 'i') throws on an unbalanced '['
RegexCompiles(p) == \A i \in 1..Len(p) : p[i] # "["

\* regex.test for a pattern of literal tokens and '.', case-insensitive
RegexTest(p, text) ==
    \E i \in 1..(Len(text) - Len(p) + 1) :
        \A k \in 1..Len(p) :
            \/ p[k] = "."
            \/ Lower(p[k]) = Lower(text[i + k - 1])

\* JSON.stringify(headers || [])
HeadersJson(h) ==
    IF IsSome(h) THEN <<"[">> \o Val(h) \o <<"]">> ELSE <<"[", "]">>

\* the blob the free-text query runs over; a record carries no requestBody
\* in this model, so formatRequestBody({}) contributes "{}"; join(' ')
Searchable(req) ==
    req.url \o <<" ">> \o HeadersJson(req.requestHeaders) \o <<" ">>
    \o HeadersJson(req.responseHeaders) \o <<" ">> \o <<"{", "}">> \o <<" ">>
    \o (IF HasBody(req) THEN Val(req.responseBody) ELSE <<>>)

StatusOf(req) == IF IsSome(req.statusCode) THEN Val(req.statusCode) ELSE 0

PassesStatus(req, range) ==
    LET status == StatusOf(req)
    IN  /\ ~(range = "2" /\ (status < 200 \/ status >= 300))
        /\ ~(range = "3" /\ (status < 300 \/ status >= 400))
        /\ ~(range = "4" /\ (status < 400 \/ status >= 500))
        /\ ~(range = "5" /\ status < 500)

PassesFilters(req, f) ==
    /\ ~(f.method # "" /\ req.method # f.method)
    /\ (f.status # "" => PassesStatus(req, f.status))
    /\ ~(f.type # "" /\ req.type # f.type)
    /\ ~(f.url # <<>> /\ ~Includes(LowerSeq(req.url), LowerSeq(f.url)))
    /\ (f.search # <<>> =>
            IF RegexCompiles(f.search)
            THEN RegexTest(f.search, Searchable(req))
            ELSE Includes(LowerSeq(Searchable(req)), LowerSeq(f.search)))

\* req.timestamp || 0
TimestampOf(req) == IF IsSome(req.timestamp) THEN Val(req.timestamp) ELSE 0

RECURSIVE FilterSeq(_, _)
FilterSeq(reqs, f) ==
    IF reqs = <<>> THEN <<>>
    ELSE LET rest == FilterSeq(Tail(reqs), f)
         IN  IF PassesFilters(Head(reqs), f) THEN <<Head(reqs)>> \o rest
             ELSE rest

\* Array.prototype.sort((a, b) => b.timestamp - a.timestamp): stable
RECURSIVE SortDesc(_)
SortDesc(s) ==
    IF s = <<>> THEN <<>>
    ELSE With(SortDesc(SubSeq(s, 1, Len(s) - 1)), LAMBDA sorted :
             LET r == s[Len(s)]
                 k == Cardinality({i \in 1..Len(sorted) :
                                   TimestampOf(sorted[i]) >= TimestampOf(r)})
             IN  SubSeq(sorted, 1, k) \o <<r>> \o SubSeq(sorted, k + 1, Len(sorted)))

getFilteredRequests(reqs, f) == SortDesc(FilterSeq(reqs, f))

\* every record dropped when the query does not compile
getFilteredRequestsCall_NoFallback(S) ==
    [panel |-> S,
     result |-> IF S.filters.search # <<>> /\ ~RegexCompiles(S.filters.search)
                THEN <<>>
                ELSE getFilteredRequests(S.requests, S.filters)]

\* the store itself sorted, in place of a copy of it
getFilteredRequestsCall_SortsStore(S) ==
    [panel |-> [S EXCEPT !.requests = SortDesc(S.requests)],
     result |-> getFilteredRequests(S.requests, S.filters)]

\* the call this.getFilteredRequests(): Array.from copies the store's values,
\* filter and sort work on the copy; what the call leaves of the panel, and
\* what it returns
getFilteredRequestsCall(S) ==
    [panel |-> S, result |-> getFilteredRequests(S.requests, S.filters)]

\* ------------------------------------------------------------------ state
VARIABLES
    requests,               \* this.requests: Map in insertion order
    pendingResponseBodies,  \* this.pendingResponseBodies: Map in insertion order
    timers,                 \* scheduled tryMatchPendingResponse(key) calls: key -> count
    isCapturing,            \* this.isCapturing
    selectedRequestId,      \* this.selectedRequestId (None = null)
    filters,                \* this.filters
    responseSearchState,    \* this.responseSearchState
    activeTab,              \* DOM: the .detail-tab carrying class 'active'
    detailOpen,             \* DOM: #detailPanel carries class 'active'
    detailContent,          \* DOM: what #detailContent shows
    requestList,            \* DOM: ids of the rows of #requestList
    requestData,            \* background script: requestData Map
    retired,                \* browser: request ids whose request has ended
    clock,                  \* current time in ms (webRequest timeStamp, Date.now())
    events,                 \* number of channel events delivered so far
    last                    \* history: the handler that ran last and its input

vars ==
    <<requests, pendingResponseBodies, timers, isCapturing, selectedRequestId,
      filters, responseSearchState, activeTab, detailOpen, detailContent,
      requestList, requestData, retired, clock, events, last>>

\* The panel object and the DOM it writes, as one value the handlers transform.
\* threw: an exception escaped the running handler.
Panel ==
    [requests |-> requests, pending |-> pendingResponseBodies,
     timers |-> timers, selected |-> selectedRequestId, filters |-> filters,
     search |-> responseSearchState, activeTab |-> activeTab,
     detailOpen |-> detailOpen, detailContent |-> detailContent,
     requestList |-> requestList, threw |-> FALSE]

\* the handler returns: what it made of the panel is the next state
Install(result) ==
    \E S \in {result} :
        /\ requests' = S.requests
        /\ pendingResponseBodies' = S.pending
        /\ timers' = S.timers
        /\ selectedRequestId' = S.selected
        /\ filters' = S.filters
        /\ responseSearchState' = S.search
        /\ activeTab' = S.activeTab
        /\ detailOpen' = S.detailOpen
        /\ detailContent' = S.detailContent
        /\ requestList' = S.requestList

\* ---------------------------------------------------------------- render
\* render that leaves the rows standing when nothing passes the filters
render_KeepRows(S0) ==
    With(getFilteredRequestsCall(S0), LAMBDA call :
    With(call.panel, LAMBDA S :
    With(call.result, LAMBDA filtered :
        IF filtered = <<>> THEN S
        ELSE IF \E i \in 1..Len(filtered) : ~UrlParses(filtered[i].url)
        THEN [S EXCEPT !.threw = TRUE]
        ELSE [S EXCEPT !.requestList =
                         [i \in 1..Len(filtered) |-> filtered[i].requestId]])))

\* render(): rebuilds the rows; new URL(req.url) throws on an unparsable URL
\* before the list is replaced.
render(S0) ==
    With(getFilteredRequestsCall(S0), LAMBDA call :
    With(call.panel, LAMBDA S :
    With(call.result, LAMBDA filtered :
        IF filtered = <<>> THEN [S EXCEPT !.requestList = <<>>]
        ELSE IF \E i \in 1..Len(filtered) : ~UrlParses(filtered[i].url)
        THEN [S EXCEPT !.threw = TRUE]
        ELSE [S EXCEPT !.requestList =
                         [i \in 1..Len(filtered) |-> filtered[i].requestId]])))

\* JSON.parse succeeds on the body (objects with at most one member "k")
JsonParses(b) == b \in {<<"{", "}">>, <<"{", "k", "}">>}

\* JSON.stringify(JSON.parse(b), null, 2)
JsonPretty(b) ==
    IF b = <<"{", "k", "}">> THEN <<"{", "\n  ", "k", "\n", "}">> ELSE b

\* renderResponse: the text shown for a response body
FormatBody(body, mimeType) ==
    LET n == Len(body)
        looksJson ==
            \/ mimeType = "application/json"
            \/ (n >= 1 /\ body[1] = "{" /\ body[n] = "}")
            \/ (n >= 1 /\ body[1] = "[" /\ body[n] = "]")
    IN  IF looksJson /\ JsonParses(body) THEN JsonPretty(body) ELSE body

\* a pending key names the same endpoint as (normalizedUrl, normalizedMethod),
\* the way the lookup loops compare: split on '::', normalise the first part
PendingKeyMatches(key, normalizedUrl, normalizedMethod) ==
    LET parts == Split(key)
    IN  /\ normalizeUrl(Part(parts, 1)) = normalizedUrl
        /\ UpperSeq(Part(parts, 2)) = <<normalizedMethod>>

RECURSIVE renderDetailPanel(_, _)

attemptResponseBodyMatch(S, i) ==
    LET req == S.requests[i]
        normalizedUrl == normalizeUrl(req.url)
        normalizedMethod == MethodOf(req.method)
        M == {j \in 1..Len(S.pending) :
                PendingKeyMatches(S.pending[j].key, normalizedUrl, normalizedMethod)}
    IN  IF M = {} THEN S
        ELSE LET pending == S.pending[Min(M)]
                 S1 == [S EXCEPT
                          !.requests[i].responseBody = Some(pending.body),
                          !.requests[i].responseBodyMimeType = Some(pending.mimeType)]
                 S2 == IF S1.selected = Some(req.requestId)
                          /\ S1.activeTab = "response"
                       THEN renderDetailPanel(S1, "response")
                       ELSE S1
             IN  [S2 EXCEPT !.pending = PendingDelete(@, pending.key)]

\* renderResponse(req): returns the panel and the kind of markup produced
renderResponse(S, i) ==
    LET req == S.requests[i]
    IN  IF HasBody(req)
        THEN [S EXCEPT !.search.originalText =
                           FormatBody(Val(req.responseBody),
                                      IF IsSome(req.responseBodyMimeType)
                                      THEN Val(req.responseBodyMimeType) ELSE ""),
                       !.detailContent = "response_body"]
        ELSE IF req.responseBodyUnavailable
        THEN [S EXCEPT !.detailContent = "response_unavailable"]
        ELSE [attemptResponseBodyMatch(S, i) EXCEPT
                 !.detailContent = "response_loading"]

renderDetailPanel(S, tab) ==
    IF S.selected = None \/ ~Has(S.requests, Val(S.selected)) THEN S
    ELSE LET i == IndexOf(S.requests, Val(S.selected))
             S1 == [S EXCEPT !.search = EmptySearch]
         IN  With(CASE tab = "headers" -> [S1 EXCEPT !.detailContent = "headers"]
                    [] tab = "response" -> renderResponse(S1, i)
                    [] tab = "curl" -> [S1 EXCEPT !.detailContent = "curl"],
                  LAMBDA S2 :
                  \* setupResponseSearch: only when the search input was rendered
                  IF tab = "response" /\ S2.detailContent = "response_body"
                  THEN [S2 EXCEPT !.search.searchTerm = <<>>,
                                  !.search.matches = <<>>,
                                  !.search.currentMatchIndex = -1]
                  ELSE S2)

closeDetailPanel(S) ==
    With(render([S EXCEPT !.selected = None]), LAMBDA S1 :
        IF S1.threw THEN S1 ELSE [S1 EXCEPT !.detailOpen = FALSE])

selectRequest(S, requestId) ==
    With(render([S EXCEPT !.selected = Some(requestId)]), LAMBDA S1 :
        IF S1.threw THEN S1
        ELSE renderDetailPanel(
                 [S1 EXCEPT !.detailOpen = TRUE, !.activeTab = "headers"],
                 "headers"))

\* ------------------------------------------------------------- retry timers
TimerCount(t, k) == IF k \in DOMAIN t THEN t[k] ELSE 0

\* setTimeout(() => this.tryMatchPendingResponse(key), ...) n times
AddTimers(t, k, n) ==
    [x \in DOMAIN t \cup {k} |-> TimerCount(t, x) + (IF x = k THEN n ELSE 0)]

FireTimer(t, k) ==
    IF t[k] = 1 THEN [x \in DOMAIN t \ {k} |-> t[x]] ELSE [t EXCEPT ![k] = @ - 1]

RECURSIVE SumOver(_, _)
SumOver(t, D) ==
    IF D = {} THEN 0
    ELSE LET k == CHOOSE x \in D : TRUE IN t[k] + SumOver(t, D \ {k})

TotalTimers(t) == SumOver(t, DOMAIN t)

\* --------------------------------------------------------------- correlator
matchesRequest_AtMost(webRequest, harUrl, harMethod, harTime) ==
    /\ normalizeUrl(webRequest.url) = harUrl
    /\ MethodOf(webRequest.method) = harMethod
    /\ Abs((IF webRequest.timeStamp # 0 THEN webRequest.timeStamp
            ELSE TimestampOf(webRequest)) - harTime * MsPerUnit) <= ToleranceMs

matchesRequest(webRequest, harUrl, harMethod, harTime) ==
    LET webUrl == normalizeUrl(webRequest.url)
        webMethod == MethodOf(webRequest.method)
        \* webRequest.timeStamp || webRequest.timestamp || 0
        webRequestTime == IF webRequest.timeStamp # 0 THEN webRequest.timeStamp
                          ELSE TimestampOf(webRequest)
        harRequestTime == harTime * MsPerUnit
        timeDiff == Abs(webRequestTime - harRequestTime)
    IN  /\ webUrl = harUrl
        /\ webMethod = harMethod
        /\ timeDiff < ToleranceMs

\* the renderDetailPanel('response') the content handlers do for the selected row
RefreshIfShown(S, requestId) ==
    IF S.selected = Some(requestId) /\ S.activeTab = "response"
    THEN renderDetailPanel(S, "response")
    ELSE S

\* storeResponseBodyUnavailable without the "responseBody === undefined" test
storeResponseBodyUnavailable_Always(S, har) ==
    LET harUrl == normalizeUrl(har.url)
        harMethod == MethodOf(har.method)
        M == {i \in 1..Len(S.requests) :
                /\ normalizeUrl(S.requests[i].url) = harUrl
                /\ MethodOf(S.requests[i].method) = harMethod}
    IN  IF M = {} THEN S
        ELSE LET i == Min(M)
             IN  RefreshIfShown(
                     [S EXCEPT !.requests[i].responseBodyUnavailable = TRUE],
                     S.requests[i].requestId)

storeResponseBodyUnavailable(S, har) ==
    LET harUrl == normalizeUrl(har.url)
        harMethod == MethodOf(har.method)
        M == {i \in 1..Len(S.requests) :
                /\ normalizeUrl(S.requests[i].url) = harUrl
                /\ MethodOf(S.requests[i].method) = harMethod}
    IN  IF M = {} THEN S
        ELSE LET i == Min(M)
                 req == S.requests[i]
             IN  IF ~HasBody(req)
                 THEN RefreshIfShown(
                          [S EXCEPT !.requests[i].responseBodyUnavailable = TRUE],
                          req.requestId)
                 ELSE S

\* getContent's callback reports no usable body
BodyUnusable(har) ==
    \/ har.body = None
    \/ (Val(har.body) = <<>> /\ har.status # 204)

\* captureResponseBody scheduling one retry instead of two
captureResponseBody_OneRetry(S, har) ==
    IF BodyUnusable(har) THEN storeResponseBodyUnavailable(S, har)
    ELSE
    LET body == Val(har.body)
        harUrl == normalizeUrl(har.url)
        harMethod == MethodOf(har.method)
        M == {i \in 1..Len(S.requests) :
                matchesRequest(S.requests[i], harUrl, harMethod, har.time)}
    IN  IF M # {}
        THEN LET i == Min(M)
                 S1 == [S EXCEPT
                          !.requests[i].responseBody = Some(body),
                          !.requests[i].responseBodyMimeType = Some(har.mimeType)]
             IN  With(RefreshIfShown(S1, S.requests[i].requestId), render)
        ELSE LET key == MakeKey(harUrl, harMethod)
             IN  [S EXCEPT
                    !.pending = PendingSet(@, key,
                                    [key |-> key, body |-> body,
                                     mimeType |-> har.mimeType]),
                    !.timers = AddTimers(@, key, 1)]

\* captureResponseBody that keeps the last record its loop finds matching
captureResponseBody_LastMatch(S, har) ==
    IF BodyUnusable(har) THEN storeResponseBodyUnavailable(S, har)
    ELSE
    LET body == Val(har.body)
        harUrl == normalizeUrl(har.url)
        harMethod == MethodOf(har.method)
        M == {i \in 1..Len(S.requests) :
                matchesRequest(S.requests[i], harUrl, harMethod, har.time)}
    IN  IF M # {}
        THEN LET i == CHOOSE x \in M : \A y \in M : y <= x
                 S1 == [S EXCEPT
                          !.requests[i].responseBody = Some(body),
                          !.requests[i].responseBodyMimeType = Some(har.mimeType)]
             IN  With(RefreshIfShown(S1, S.requests[i].requestId), render)
        ELSE LET key == MakeKey(harUrl, harMethod)
             IN  [S EXCEPT
                    !.pending = PendingSet(@, key,
                                    [key |-> key, body |-> body,
                                     mimeType |-> har.mimeType]),
                    !.timers = AddTimers(@, key, 2)]

captureResponseBody(S, har) ==
    IF BodyUnusable(har) THEN storeResponseBodyUnavailable(S, har)
    ELSE
    LET body == Val(har.body)
        harUrl == normalizeUrl(har.url)
        harMethod == MethodOf(har.method)
        M == {i \in 1..Len(S.requests) :
                matchesRequest(S.requests[i], harUrl, harMethod, har.time)}
    IN  IF M # {}
        THEN LET i == Min(M)
                 S1 == [S EXCEPT
                          !.requests[i].responseBody = Some(body),
                          !.requests[i].responseBodyMimeType = Some(har.mimeType)]
             IN  With(RefreshIfShown(S1, S.requests[i].requestId), render)
        ELSE LET key == MakeKey(harUrl, harMethod)
             IN  [S EXCEPT
                    !.pending = PendingSet(@, key,
                                    [key |-> key, body |-> body,
                                     mimeType |-> har.mimeType]),
                    !.timers = AddTimers(@, key, 2)]

\* a retry that puts an entry back under its key when it finds none
tryMatchPendingResponse_Resurrect(S, key) ==
    IF PendingIndex(S.pending, key) = 0
    THEN [S EXCEPT !.pending =
             Append(@, [key |-> key, body |-> <<>>, mimeType |-> ""])]
    ELSE S

\* tryMatchPendingResponse dropping the entry when no record matches
tryMatchPendingResponse_DropUnmatched(S, key) ==
    IF PendingIndex(S.pending, key) = 0 THEN S
    ELSE
    LET pending == S.pending[PendingIndex(S.pending, key)]
        parts == Split(key)
        normalizedUrl == normalizeUrl(Part(parts, 1))
        normalizedMethod == UpperSeq(Part(parts, 2))
        M == {i \in 1..Len(S.requests) :
                /\ normalizeUrl(S.requests[i].url) = normalizedUrl
                /\ <<MethodOf(S.requests[i].method)>> = normalizedMethod}
    IN  IF M = {} THEN [S EXCEPT !.pending = PendingDelete(@, key)]
        ELSE LET i == Min(M)
                 req == S.requests[i]
                 attached == [S EXCEPT
                                !.requests[i].responseBody = Some(pending.body),
                                !.requests[i].responseBodyMimeType =
                                    Some(pending.mimeType)]
             IN  With(IF ~HasBody(req)
                      THEN With(RefreshIfShown(attached, req.requestId), render)
                      ELSE S,
                      LAMBDA S1 :
                      IF S1.threw THEN S1
                      ELSE [S1 EXCEPT !.pending = PendingDelete(@, key)])

tryMatchPendingResponse(S, key) ==
    IF PendingIndex(S.pending, key) = 0 THEN S
    ELSE
    LET pending == S.pending[PendingIndex(S.pending, key)]
        parts == Split(key)
        normalizedUrl == normalizeUrl(Part(parts, 1))
        normalizedMethod == UpperSeq(Part(parts, 2))
        M == {i \in 1..Len(S.requests) :
                /\ normalizeUrl(S.requests[i].url) = normalizedUrl
                /\ <<MethodOf(S.requests[i].method)>> = normalizedMethod}
    IN  IF M = {} THEN S
        ELSE LET i == Min(M)
                 req == S.requests[i]
                 attached == [S EXCEPT
                                !.requests[i].responseBody = Some(pending.body),
                                !.requests[i].responseBodyMimeType =
                                    Some(pending.mimeType)]
             IN  With(IF ~HasBody(req)
                      THEN With(RefreshIfShown(attached, req.requestId), render)
                      ELSE S,
                      LAMBDA S1 :
                      IF S1.threw THEN S1
                      ELSE [S1 EXCEPT !.pending = PendingDelete(@, key)])

\* the pending lookup addRequest and completeRequest share: the entry under
\* url::METHOD, else the first entry whose split key compares equal; 0 = none
FindPending(pend, normalizedUrl, normalizedMethod) ==
    LET simpleKey == MakeKey(normalizedUrl, normalizedMethod)
        M == {j \in 1..Len(pend) :
                PendingKeyMatches(pend[j].key, normalizedUrl, normalizedMethod)}
    IN  IF PendingIndex(pend, simpleKey) # 0 THEN PendingIndex(pend, simpleKey)
        ELSE IF M # {} THEN Min(M)
        ELSE 0

\* TakePending without the pendingResponseBodies.delete
TakePending_KeepEntry(S, rec, j) ==
    IF j = 0 THEN [rec |-> rec, pending |-> S.pending]
    ELSE [rec |-> [rec EXCEPT !.responseBody = Some(S.pending[j].body),
                              !.responseBodyMimeType = Some(S.pending[j].mimeType)],
          pending |-> S.pending]

\* sets the body fields from pending entry j (0: none) and removes the entry
TakePending(S, rec, j) ==
    IF j = 0 THEN [rec |-> rec, pending |-> S.pending]
    ELSE [rec |-> [rec EXCEPT !.responseBody = Some(S.pending[j].body),
                              !.responseBodyMimeType = Some(S.pending[j].mimeType)],
          pending |-> RemoveAt(S.pending, j)]

\* addRequest without the "!this.requests.has(data.requestId)" test
addRequest_Overwrite(S, data, now) ==
    LET request == [SpreadData(EmptyObject, data) EXCEPT
                       !.timestamp = Some(IF data.timeStamp # 0
                                          THEN data.timeStamp ELSE now)]
    IN  render([S EXCEPT !.requests = MapSet(@, data.requestId, request)])

addRequest(S, data, now) ==
    IF Has(S.requests, data.requestId) THEN S
    ELSE LET request == [SpreadData(EmptyObject, data) EXCEPT
                            !.timestamp = Some(IF data.timeStamp # 0
                                               THEN data.timeStamp ELSE now)]
             j == FindPending(S.pending, normalizeUrl(data.url),
                              MethodOf(data.method))
         IN  With(TakePending(S, request, j), LAMBDA got :
                 render([S EXCEPT
                           !.pending = got.pending,
                           !.requests = MapSet(@, data.requestId, got.rec)]))

\* updateRequest without the "this.requests.has(requestId)" test
updateRequest_Create(S, requestId, data) ==
    LET existing == IF Has(S.requests, requestId)
                    THEN S.requests[IndexOf(S.requests, requestId)]
                    ELSE EmptyObject
    IN  [S EXCEPT !.requests = MapSet(@, requestId, SpreadData(existing, data))]

updateRequest(S, requestId, data) ==
    IF Has(S.requests, requestId)
    THEN LET existing == S.requests[IndexOf(S.requests, requestId)]
             S1 == [S EXCEPT !.requests =
                        MapSet(@, requestId, SpreadData(existing, data))]
         IN  IF S1.selected = Some(requestId)
             THEN renderDetailPanel(S1, "headers")
             ELSE S1
    ELSE S

\* completeRequest without the terminal flag
completeRequest_NoFlag(S, requestId, data) ==
    LET existing == IF Has(S.requests, requestId)
                    THEN S.requests[IndexOf(S.requests, requestId)]
                    ELSE EmptyObject
        updated == SpreadData(existing, data)
        j == IF ~HasBody(updated)
             THEN FindPending(S.pending, normalizeUrl(data.url),
                              MethodOf(data.method))
             ELSE 0
    IN  With(TakePending(S, updated, j), LAMBDA got :
        With(render([S EXCEPT
                       !.pending = got.pending,
                       !.requests = MapSet(@, requestId, got.rec)]),
             LAMBDA S1 :
             IF S1.threw THEN S1
             ELSE IF S1.selected = Some(requestId)
             THEN renderDetailPanel(S1, "headers")
             ELSE S1))

\* completeRequest that takes the record from the event's data alone
completeRequest_DataOnly(S, requestId, data) ==
    LET existing == EmptyObject
        updated == [SpreadData(existing, data) EXCEPT !.completed = TRUE]
        j == IF ~HasBody(updated)
             THEN FindPending(S.pending, normalizeUrl(data.url),
                              MethodOf(data.method))
             ELSE 0
    IN  With(TakePending(S, updated, j), LAMBDA got :
        With(render([S EXCEPT
                       !.pending = got.pending,
                       !.requests = MapSet(@, requestId, got.rec)]),
             LAMBDA S1 :
             IF S1.threw THEN S1
             ELSE IF S1.selected = Some(requestId)
             THEN renderDetailPanel(S1, "headers")
             ELSE S1))

completeRequest(S, requestId, data) ==
    LET existing == IF Has(S.requests, requestId)
                    THEN S.requests[IndexOf(S.requests, requestId)]
                    ELSE EmptyObject
        updated == [SpreadData(existing, data) EXCEPT !.completed = TRUE]
        j == IF ~HasBody(updated)
             THEN FindPending(S.pending, normalizeUrl(data.url),
                              MethodOf(data.method))
             ELSE 0
    IN  With(TakePending(S, updated, j), LAMBDA got :
        With(render([S EXCEPT
                       !.pending = got.pending,
                       !.requests = MapSet(@, requestId, got.rec)]),
             LAMBDA S1 :
             IF S1.threw THEN S1
             ELSE IF S1.selected = Some(requestId)
             THEN renderDetailPanel(S1, "headers")
             ELSE S1))

\* ------------------------------------------------------ response-body search
\* the matches regex.exec collects for the escaped term with flags 'gi':
\* non-overlapping occurrences, left to right, from position `from`
RECURSIVE FindMatches(_, _, _)
FindMatches(text, term, from) ==
    LET n == Len(term)
        C == {i \in from..(Len(text) - n + 1) :
                LowerSeq(SubSeq(text, i, i + n - 1)) = LowerSeq(term)}
    IN  IF C = {} THEN <<>>
        ELSE LET i == Min(C)
             IN  <<[index |-> i - 1, length |-> n]>>
                 \o FindMatches(text, term, i + n)

\* searchTerm.trim() is empty
IsBlank(term) == \A i \in 1..Len(term) : term[i] = " "

navigateToMatch(S, matchIndex) ==
    IF matchIndex < 0 \/ matchIndex >= Len(S.search.matches) THEN S
    ELSE [S EXCEPT !.search.currentMatchIndex = matchIndex]

\* the new matches added behind the previous ones, the pointer left alone
performResponseSearch_Append(S, searchTerm) ==
    [S EXCEPT !.search.searchTerm = searchTerm,
              !.search.matches =
                  @ \o FindMatches(S.search.originalText, searchTerm, 1)]

performResponseSearch(S, searchTerm) ==
    LET S1 == [S EXCEPT !.search.searchTerm = searchTerm,
                        !.search.currentMatchIndex = -1]
    IN  IF IsBlank(searchTerm)
        THEN \* clearHighlights
             [S1 EXCEPT !.search.matches = <<>>,
                        !.search.currentMatchIndex = -1]
        ELSE With(FindMatches(S1.search.originalText, searchTerm, 1),
                  LAMBDA matches :
                  LET S2 == [S1 EXCEPT !.search.matches = matches]
                  IN  IF Len(matches) > 0 THEN navigateToMatch(S2, 0) ELSE S2)

\* the pointer moves on by one with no wrap
navigateToNextMatch_NoModulo(S) ==
    IF Len(S.search.matches) = 0 THEN S
    ELSE [S EXCEPT !.search.currentMatchIndex = @ + 1]

\* the pointer stops at the last match
navigateToNextMatch_NoWrap(S) ==
    IF Len(S.search.matches) = 0 THEN S
    ELSE navigateToMatch(
             S, IF S.search.currentMatchIndex + 1 >= Len(S.search.matches)
                THEN Len(S.search.matches) - 1
                ELSE S.search.currentMatchIndex + 1)

navigateToNextMatch(S) ==
    IF Len(S.search.matches) = 0 THEN S
    ELSE navigateToMatch(
             S, (S.search.currentMatchIndex + 1) % Len(S.search.matches))

navigateToPreviousMatch(S) ==
    IF Len(S.search.matches) = 0 THEN S
    ELSE navigateToMatch(
             S, IF S.search.currentMatchIndex <= 0
                THEN Len(S.search.matches) - 1
                ELSE S.search.currentMatchIndex - 1)

\* ------------------------------------------------------------------- Init
\* what `last` records: the handler that ran last, with the request id and the
\* match key of its input; every user-interface handler is recorded as "ui"
Ran(kind, id, key) == [kind |-> kind, id |-> id, key |-> key]

Init ==
    /\ requests = <<>>
    /\ pendingResponseBodies = <<>>
    /\ timers = <<>>
    /\ isCapturing = TRUE
    /\ selectedRequestId = None
    /\ filters = EmptyFilters
    /\ responseSearchState = EmptySearch
    /\ activeTab = "headers"
    /\ detailOpen = FALSE
    /\ detailContent = "empty"
    /\ requestList = <<>>
    /\ requestData = [id \in Ids |-> None]
    /\ retired = {}
    /\ clock = Min(ClockValues)
    /\ events = 0
    /\ last = Ran("init", "", <<>>)

\* ------------------------------------------------ network channel (webRequest)
\* port.onMessage listener: nothing is processed while capture is off
OnMessage(S) == IF isCapturing THEN S ELSE Panel

Channel == events < MaxEvents /\ events' = events + 1

\* chrome.webRequest.onBeforeRequest -> NETWORK_REQUEST -> addRequest.
\* It fires again for the same id when the request is redirected.
OnBeforeRequest(id, ep) ==
    /\ Channel
    /\ id \notin retired
    /\ LET details == Details(id, ep, clock)
       IN  /\ requestData' = [requestData EXCEPT ![id] = Some(details)]
           /\ Install(OnMessage(addRequest(Panel, details, clock)))
    /\ UNCHANGED <<isCapturing, retired, clock>>
    /\ last' = Ran("requestStarted", id, matchKey(ep.url, ep.method))

\* onBeforeSendHeaders -> NETWORK_REQUEST_UPDATE -> updateRequest
OnBeforeSendHeaders(id) ==
    /\ Channel
    /\ IsSome(requestData[id])
    /\ LET existing == Val(requestData[id])
           details == [Details(id, existing, clock) EXCEPT
                          !.requestHeaders = Some(Headers_sent)]
           updated == SpreadData(existing, details)
       IN  /\ requestData' = [requestData EXCEPT ![id] = Some(updated)]
           /\ Install(OnMessage(updateRequest(Panel, id, updated)))
    /\ UNCHANGED <<isCapturing, retired, clock>>
    /\ last' = Ran("update", id, <<>>)

\* onHeadersReceived -> NETWORK_REQUEST_UPDATE -> updateRequest
OnHeadersReceived(id, status) ==
    /\ Channel
    /\ IsSome(requestData[id])
    /\ LET existing == Val(requestData[id])
           details == [Details(id, existing, clock) EXCEPT
                          !.statusCode = Some(status),
                          !.responseHeaders = Some(Headers_received)]
           updated == SpreadData(existing, details)
       IN  /\ requestData' = [requestData EXCEPT ![id] = Some(updated)]
           /\ Install(OnMessage(updateRequest(Panel, id, updated)))
    /\ UNCHANGED <<isCapturing, retired, clock>>
    /\ last' = Ran("update", id, <<>>)

\* the entry of a finished request stays in the background's Map
requestDataDelete_Keep(rd, id) == rd

\* requestData.delete(details.requestId)
requestDataDelete(rd, id) == [rd EXCEPT ![id] = None]

\* onCompleted -> NETWORK_REQUEST_COMPLETE -> completeRequest
OnCompleted(id, status) ==
    /\ Channel
    /\ IsSome(requestData[id])
    /\ LET data == Val(requestData[id])
           details == [Details(id, data, clock) EXCEPT !.statusCode = Some(status)]
           completeData == SpreadData(data, details)
       IN  /\ requestData' = requestDataDelete(requestData, id)
           /\ Install(OnMessage(completeRequest(Panel, id, completeData)))
    /\ retired' = retired \cup {id}
    /\ UNCHANGED <<isCapturing, clock>>
    /\ last' = Ran("complete", id, <<>>)

\* onErrorOccurred -> NETWORK_REQUEST_COMPLETE with error: true
OnErrorOccurred(id) ==
    /\ Channel
    /\ IsSome(requestData[id])
    /\ LET data == Val(requestData[id])
           completeData == [SpreadData(data, Details(id, data, clock)) EXCEPT
                               !.error = TRUE]
       IN  /\ requestData' = requestDataDelete(requestData, id)
           /\ Install(OnMessage(completeRequest(Panel, id, completeData)))
    /\ retired' = retired \cup {id}
    /\ UNCHANGED <<isCapturing, clock>>
    /\ last' = Ran("error", id, <<>>)

\* ------------------------------------- content channel (devtools.network)
Har(url, method, time, body, status, mimeType) ==
    [url |-> url, method |-> method, time |-> time, body |-> body,
     status |-> status, mimeType |-> mimeType]

\* onRequestFinished whose getContent yields a usable body
ContentAvailable(ep, time, content) ==
    /\ Channel
    /\ \E S \in {captureResponseBody(
                       Panel, Har(ep.url, ep.method, time, Some(content.body),
                                  200, content.mimeType))} :
           /\ TotalTimers(S.timers) <= MaxTimers
           /\ Install(S)
    /\ UNCHANGED <<isCapturing, requestData, retired, clock>>
    /\ last' = Ran("contentAvailable", "", matchKey(ep.url, ep.method))

\* onRequestFinished whose getContent yields null or an empty non-204 body
ContentUnavailable(ep, body) ==
    /\ Channel
    /\ Install(captureResponseBody(
                   Panel, Har(ep.url, ep.method, 0, body, 200, "")))
    /\ UNCHANGED <<isCapturing, requestData, retired, clock>>
    /\ last' = Ran("contentUnavailable", "", matchKey(ep.url, ep.method))

\* one of the two setTimeout callbacks of captureResponseBody fires
Retry(key) ==
    /\ key \in DOMAIN timers
    /\ Install(tryMatchPendingResponse(
                   [Panel EXCEPT !.timers = FireTimer(@, key)], key))
    /\ UNCHANGED <<isCapturing, requestData, retired, clock, events>>
    /\ last' = Ran("retry", "", key)

Tick ==
    /\ \E t \in ClockValues : t > clock
    /\ clock' = Min({t \in ClockValues : t > clock})
    /\ UNCHANGED <<requests, pendingResponseBodies, timers, isCapturing,
                   selectedRequestId, filters, responseSearchState, activeTab,
                   detailOpen, detailContent, requestList, requestData, retired,
                   events, last>>

\* ------------------------------------------------------------ user actions
Env == UNCHANGED <<requestData, retired, clock, events>>

\* clearBtn click handler
Clear ==
    /\ \E S1 \in {render([Panel EXCEPT !.requests = <<>>, !.selected = None])} :
           Install(IF S1.threw THEN S1 ELSE closeDetailPanel(S1))
    /\ UNCHANGED isCapturing
    /\ Env
    /\ last' = Ran("clear", "", <<>>)

\* captureBtn click handler
toggleCapture ==
    /\ isCapturing' = ~isCapturing
    /\ UNCHANGED <<requests, pendingResponseBodies, timers, selectedRequestId,
                   filters, responseSearchState, activeTab, detailOpen,
                   detailContent, requestList>>
    /\ Env
    /\ last' = Ran("ui", "", <<>>)

\* click on a row of the request list
RowClick(id) ==
    /\ \E i \in 1..Len(requestList) : requestList[i] = id
    /\ Install(IF selectedRequestId = Some(id) THEN closeDetailPanel(Panel)
               ELSE selectRequest(Panel, id))
    /\ UNCHANGED isCapturing
    /\ Env
    /\ last' = Ran("ui", "", <<>>)

\* click on a tab of the open detail panel
TabClick(tab) ==
    /\ detailOpen
    /\ Install(renderDetailPanel([Panel EXCEPT !.activeTab = tab], tab))
    /\ UNCHANGED isCapturing
    /\ Env
    /\ last' = Ran("ui", "", <<>>)

\* detailCloseBtn click handler
CloseClick ==
    /\ detailOpen
    /\ Install(closeDetailPanel(Panel))
    /\ UNCHANGED isCapturing
    /\ Env
    /\ last' = Ran("ui", "", <<>>)

\* the response search input and code block are on screen
SearchShown == detailOpen /\ detailContent = "response_body"

SearchTerms == {<<"a">>, <<"k">>, <<" ">>}

\* 'input' event of the response search input
SearchInput(term) ==
    /\ SearchShown
    /\ Install(performResponseSearch(Panel, term))
    /\ UNCHANGED isCapturing
    /\ Env
    /\ last' = Ran("ui", "", <<>>)

\* Tab in the code block
TabKey ==
    /\ SearchShown
    /\ Len(responseSearchState.matches) > 0
    /\ Install(navigateToNextMatch(Panel))
    /\ UNCHANGED isCapturing
    /\ Env
    /\ last' = Ran("ui", "", <<>>)

\* Shift+Tab in the code block
ShiftTabKey ==
    /\ SearchShown
    /\ Len(responseSearchState.matches) > 0
    /\ Install(navigateToPreviousMatch(Panel))
    /\ UNCHANGED isCapturing
    /\ Env
    /\ last' = Ran("ui", "", <<>>)

\* ------------------------------------------------------------------- Spec
Next ==
    \/ \E id \in Ids, ep \in Endpoints : OnBeforeRequest(id, ep)
    \/ \E id \in Ids : OnBeforeSendHeaders(id)
    \/ \E id \in Ids, st \in StatusCodes : OnHeadersReceived(id, st)
    \/ \E id \in Ids, st \in StatusCodes : OnCompleted(id, st)
    \/ \E id \in Ids : OnErrorOccurred(id)
    \/ \E ep \in Endpoints, t \in HarTimes, c \in Contents : ContentAvailable(ep, t, c)
    \/ \E ep \in Endpoints, b \in {None, Some(<<>>)} : ContentUnavailable(ep, b)
    \/ \E key \in DOMAIN timers : Retry(key)
    \/ Clear
    \/ \E id \in Ids : RowClick(id)
    \/ \E tab \in Tabs : TabClick(tab)
    \/ CloseClick

\* capture is on and the clock stands still
Spec == Init /\ [][Next]_vars

\* the same with the capture toggle and the passing of time
NextFull ==
    \/ Next
    \/ toggleCapture
    \/ Tick

SpecFull == Init /\ [][NextFull]_vars

\* the panel with its response-body search in use
NextSearch ==
    \/ \E id \in Ids, ep \in Endpoints : OnBeforeRequest(id, ep)
    \/ \E ep \in Endpoints, t \in HarTimes, c \in Contents : ContentAvailable(ep, t, c)
    \/ \E key \in DOMAIN timers : Retry(key)
    \/ Clear
    \/ \E id \in Ids : RowClick(id)
    \/ \E tab \in Tabs : TabClick(tab)
    \/ CloseClick
    \/ \E term \in SearchTerms : SearchInput(term)
    \/ TabKey
    \/ ShiftTabKey

SpecSearch == Init /\ [][NextSearch]_vars

\* ---------------------------------------------------------------- scenarios
\* One request and the content events of its endpoint.
NoStartYet == requests = <<>> /\ retired = {} /\ \A id \in Ids : requestData[id] = None

NoContentYet ==
    /\ pendingResponseBodies = <<>>
    /\ DOMAIN timers = {}
    /\ \A i \in 1..Len(requests) : ~HasBody(requests[i])

\* the endpoint agrees with the match key of whatever was delivered before
SameKeyAsBefore(ep) ==
    /\ \A i \in 1..Len(requests) :
           matchKey(requests[i].url, requests[i].method) = matchKey(ep.url, ep.method)
    /\ \A j \in 1..Len(pendingResponseBodies) :
           pendingResponseBodies[j].key = matchKey(ep.url, ep.method)

PairStart(id, ep) == NoStartYet /\ SameKeyAsBefore(ep) /\ OnBeforeRequest(id, ep)

PairContent(ep, t, c) ==
    NoContentYet /\ SameKeyAsBefore(ep) /\ ContentAvailable(ep, t, c)

\* one requestStarted and one contentAvailable of the same match key, in
\* either order, with the retries the content schedules
NextPair ==
    \/ \E id \in Ids, ep \in Endpoints : PairStart(id, ep)
    \/ \E ep \in Endpoints, t \in HarTimes, c \in Contents : PairContent(ep, t, c)
    \/ \E key \in DOMAIN timers : Retry(key)
    \/ Tick

SpecPair == Init /\ [][NextPair]_vars

OneRecord == Len(requests) = 1

\* a request starts, its content is reported unavailable, then available
NextUnavailFirst ==
    \/ \E id \in Ids, ep \in Endpoints : events = 0 /\ PairStart(id, ep)
    \/ \E ep \in Endpoints, b \in {None, Some(<<>>)} :
           events = 1 /\ OneRecord /\ SameKeyAsBefore(ep) /\ ContentUnavailable(ep, b)
    \/ \E ep \in Endpoints, t \in HarTimes, c \in Contents :
           events = 2 /\ OneRecord /\ SameKeyAsBefore(ep) /\ ContentAvailable(ep, t, c)
    \/ \E key \in DOMAIN timers : Retry(key)
    \/ Tick

SpecUnavailFirst == Init /\ [][NextUnavailFirst]_vars

\* a request starts, its content is reported available, then unavailable
NextAvailFirst ==
    \/ \E id \in Ids, ep \in Endpoints : events = 0 /\ PairStart(id, ep)
    \/ \E ep \in Endpoints, t \in HarTimes, c \in Contents :
           events = 1 /\ OneRecord /\ SameKeyAsBefore(ep) /\ ContentAvailable(ep, t, c)
    \/ \E ep \in Endpoints, b \in {None, Some(<<>>)} :
           events = 2 /\ OneRecord /\ SameKeyAsBefore(ep) /\ ContentUnavailable(ep, b)
    \/ \E key \in DOMAIN timers : Retry(key)
    \/ Tick

SpecAvailFirst == Init /\ [][NextAvailFirst]_vars

\* content is captured while the store is empty, the user clears, and only
\* then requests start: every body was captured before the Clear and every
\* record is created after it
NextClearRetry ==
    \/ \E ep \in Endpoints, t \in HarTimes, c \in Contents :
           events = 0 /\ ContentAvailable(ep, t, c)
    \/ (events = 1 /\ Clear)
    \/ \E id \in Ids, ep \in Endpoints :
           (last.kind = "clear" \/ events >= 2) /\ OnBeforeRequest(id, ep)
    \/ \E key \in DOMAIN timers : Retry(key)

SpecClearRetry == Init /\ [][NextClearRetry]_vars

\* content is captured while the store is empty, both retries fire, and only
\* then requests start
NextLateStart ==
    \/ \E ep \in Endpoints, t \in HarTimes, c \in Contents :
           events = 0 /\ ContentAvailable(ep, t, c)
    \/ \E key \in DOMAIN timers : Retry(key)
    \/ \E id \in Ids, ep \in Endpoints :
           events >= 1 /\ DOMAIN timers = {} /\ OnBeforeRequest(id, ep)
    \/ Tick

SpecLateStart == Init /\ [][NextLateStart]_vars

\* ------------------------------------------------- normalizeUrl on its own
UrlTokens == {Origin, "/", "x", Sep, QueryToken, HashToken}

\* strings the token model reads as JavaScript's URL parser does: the origin
\* stands first or not at all, and no letter follows it directly (that
\* would spell another host)
UrlInputs ==
    {u \in UNION {[1..n -> UrlTokens] : n \in 1..MaxUrlLen} :
        /\ \A i \in 2..Len(u) : u[i] # Origin
        /\ ~(Len(u) >= 2 /\ u[1] = Origin /\ u[2] = "x")}

\* a freshly constructed panel about to normalise the string last.key
InitNormalize ==
    /\ requests = <<>>
    /\ pendingResponseBodies = <<>>
    /\ timers = <<>>
    /\ isCapturing = TRUE
    /\ selectedRequestId = None
    /\ filters = EmptyFilters
    /\ responseSearchState = EmptySearch
    /\ activeTab = "headers"
    /\ detailOpen = FALSE
    /\ detailContent = "empty"
    /\ requestList = <<>>
    /\ requestData = [id \in Ids |-> None]
    /\ retired = {}
    /\ clock = Min(ClockValues)
    /\ events = 0
    /\ \E u \in UrlInputs : last = Ran("input", <<>>, u)

\* this.normalizeUrl(url): last' records the argument and the value returned
NormalizeCall ==
    /\ last.kind = "input"
    /\ last' = Ran("normalizeUrl", last.key, normalizeUrl(last.key))
    /\ UNCHANGED <<requests, pendingResponseBodies, timers, isCapturing,
                   selectedRequestId, filters, responseSearchState, activeTab,
                   detailOpen, detailContent, requestList, requestData, retired,
                   clock, events>>

NextNormalize == NormalizeCall

SpecNormalize == InitNormalize /\ [][NextNormalize]_vars

\* ------------------------------------------- the status filter on its own
FilterIds == <<"r1", "r2", "r3", "r4", "r5">>

\* statusCode of a record: absent, or what the server answered
StatusInputs == {None, Some(200), Some(403), Some(404), Some(500), Some(600)}

\* values of the statusFilter select, by their first character
StatusFilterValues == {"", "2", "3", "4", "5"}

\* the record addRequest made of a request to U_x, with its status merged in
StoredRecord(id, status) ==
    [SpreadData(EmptyObject, Details(id, [url |-> U_x, method |-> "GET",
                                          type |-> "xmlhttprequest"],
                                     Min(ClockValues)))
     EXCEPT !.timestamp = Some(Min(ClockValues)), !.statusCode = status]

\* a panel holding up to MaxStore records, listed, with no filter set
InitFilter ==
    /\ \E n \in 1..MaxStore : \E st \in [1..n -> StatusInputs] :
           /\ requests = [i \in 1..n |-> StoredRecord(FilterIds[i], st[i])]
           /\ requestList = [i \in 1..n |-> FilterIds[i]]
    /\ pendingResponseBodies = <<>>
    /\ timers = <<>>
    /\ isCapturing = TRUE
    /\ selectedRequestId = None
    /\ filters = EmptyFilters
    /\ responseSearchState = EmptySearch
    /\ activeTab = "headers"
    /\ detailOpen = FALSE
    /\ detailContent = "empty"
    /\ requestData = [id \in Ids |-> None]
    /\ retired = {}
    /\ clock = Min(ClockValues)
    /\ events = 0
    /\ last = Ran("init", "", <<>>)

\* 'change' handler of the statusFilter select
StatusFilterChange(value) ==
    /\ Install(render([Panel EXCEPT !.filters.status = value]))
    /\ UNCHANGED isCapturing
    /\ Env
    /\ last' = Ran("ui", "", <<>>)

NextFilter == \E value \in StatusFilterValues : StatusFilterChange(value)

SpecFilter == InitFilter /\ [][NextFilter]_vars

\* the two channels and Clear, with the detail panel never opened
NextChannels ==
    \/ \E id \in Ids, ep \in Endpoints : OnBeforeRequest(id, ep)
    \/ \E id \in Ids : OnBeforeSendHeaders(id)
    \/ \E id \in Ids, st \in StatusCodes : OnHeadersReceived(id, st)
    \/ \E id \in Ids, st \in StatusCodes : OnCompleted(id, st)
    \/ \E id \in Ids : OnErrorOccurred(id)
    \/ \E ep \in Endpoints, t \in HarTimes, c \in Contents : ContentAvailable(ep, t, c)
    \/ \E ep \in Endpoints, b \in {None, Some(<<>>)} : ContentUnavailable(ep, b)
    \/ \E key \in DOMAIN timers : Retry(key)
    \/ Clear

SpecChannels == Init /\ [][NextChannels]_vars

\* the same with the capture toggle
NextGated ==
    \/ NextChannels
    \/ toggleCapture

SpecGated == Init /\ [][NextGated]_vars

\* the panel as the constructor leaves it
FreshPanel ==
    [requests |-> <<>>, pending |-> <<>>, timers |-> <<>>, selected |-> None,
     filters |-> EmptyFilters, search |-> EmptySearch, activeTab |-> "headers",
     detailOpen |-> FALSE, detailContent |-> "empty", requestList |-> <<>>,
     threw |-> FALSE]

\* the panel after requestStarted(r1) for U_x and a contentAvailable of that
\* endpoint in time to be attached to r1 directly
AttachedPanel ==
    captureResponseBody(
        addRequest(FreshPanel,
                   Details("r1", [url |-> U_x, method |-> "GET",
                                  type |-> "xmlhttprequest"], Min(ClockValues)),
                   Min(ClockValues)),
        Har(U_x, "GET", Min(HarTimes), Some(Body_text), 200, "text/plain"))

\* the channels, starting when r1 is in flight and has its body
InitAttached ==
    /\ \E S \in {AttachedPanel} :
           /\ requests = S.requests
           /\ pendingResponseBodies = S.pending
           /\ timers = S.timers
           /\ selectedRequestId = S.selected
           /\ filters = S.filters
           /\ responseSearchState = S.search
           /\ activeTab = S.activeTab
           /\ detailOpen = S.detailOpen
           /\ detailContent = S.detailContent
           /\ requestList = S.requestList
    /\ isCapturing = TRUE
    /\ requestData =
          [id \in Ids |->
              IF id = "r1"
              THEN Some(Details("r1", [url |-> U_x, method |-> "GET",
                                       type |-> "xmlhttprequest"],
                                Min(ClockValues)))
              ELSE None]
    /\ retired = {}
    /\ clock = Min(ClockValues)
    /\ events = 0
    /\ last = Ran("contentAvailable", "", matchKey(U_x, "GET"))

SpecAttached == InitAttached /\ [][NextChannels]_vars

\* ------------------------------------------ the free-text query on its own
\* values typed into the search input
SearchQueries == {<<>>, <<"[">>, <<"[", "B">>, <<"[", "k">>, <<"A">>, <<".">>}

\* response bodies of the stored records: unknown, or one of two texts
QueryBodies == {None, Some(Body_text), Some(<<"a", "[", "b">>)}

\* the record addRequest made of a request to U_x, enriched by later events
QueryRecord(id, ts, headers, body) ==
    [SpreadData(EmptyObject, Details(id, [url |-> U_x, method |-> "GET",
                                          type |-> "xmlhttprequest"], ts))
     EXCEPT !.timestamp = Some(ts), !.requestHeaders = headers,
            !.responseBody = body]

\* start times of the stored records, in the order the requests started
QueryTime(i) == IF i = 1 THEN Min(ClockValues) ELSE ToleranceMs + Min(ClockValues)

\* a panel holding up to MaxQueryStore records, listed newest first, with no
\* filter set
InitQuery ==
    /\ \E n \in 1..MaxQueryStore :
       \E hs \in [1..n -> {None, Some(Headers_sent)}], bs \in [1..n -> QueryBodies] :
           /\ requests = [i \in 1..n |->
                             QueryRecord(FilterIds[i], QueryTime(i), hs[i], bs[i])]
           /\ requestList =
                  [i \in 1..n |->
                      getFilteredRequests(requests, EmptyFilters)[i].requestId]
    /\ pendingResponseBodies = <<>>
    /\ timers = <<>>
    /\ isCapturing = TRUE
    /\ selectedRequestId = None
    /\ filters = EmptyFilters
    /\ responseSearchState = EmptySearch
    /\ activeTab = "headers"
    /\ detailOpen = FALSE
    /\ detailContent = "empty"
    /\ requestData = [id \in Ids |-> None]
    /\ retired = {}
    /\ clock = ToleranceMs + Min(ClockValues)
    /\ events = 0
    /\ last = Ran("init", "", <<>>)

\* 'input' handler of the search input
SearchFilterInput(value) ==
    /\ Install(render([Panel EXCEPT !.filters.search = value]))
    /\ UNCHANGED isCapturing
    /\ Env
    /\ last' = Ran("ui", "", <<>>)

\* one call of this.getFilteredRequests(); `last` keeps what it returned
Evaluate ==
    \E call \in {getFilteredRequestsCall(Panel)} :
        /\ Install(call.panel)
        /\ UNCHANGED isCapturing
        /\ Env
        /\ last' = Ran("evaluate", "", call.result)

NextQuery ==
    \/ \E value \in SearchQueries : SearchFilterInput(value)
    \/ Evaluate

SpecQuery == InitQuery /\ [][NextQuery]_vars

\* ------------------------------------------------------------------ claims
\* C1 (as claimed): one requestStarted and one contentAvailable of the same
\* match key, in either order and with any content timestamp: once both were
\* processed and no retry is outstanding, the record carries the content's
\* body and mime type and no pending entry of that key is left.
C1_PairSettled ==
    (events = 2 /\ DOMAIN timers = {}) =>
        /\ Len(requests) = 1
        /\ \E c \in Contents :
               /\ requests[1].responseBody = Some(c.body)
               /\ requests[1].responseBodyMimeType = Some(c.mimeType)
        /\ PendingIndex(pendingResponseBodies,
                        matchKey(requests[1].url, requests[1].method)) = 0

\* C2: a requestStarted with a new id, processed while the pending buffer
\* holds an entry under its match key, yields a record that already carries
\* the entry's body and mime type; the entry is gone and every other record
\* is as it was.
C2_ParkedContentConsumed ==
    [][(/\ last'.kind = "requestStarted"
        /\ isCapturing
        /\ ~Has(requests, last'.id)
        /\ PendingIndex(pendingResponseBodies, last'.key) # 0)
       => LET parked == pendingResponseBodies[
                            PendingIndex(pendingResponseBodies, last'.key)]
              n == Len(requests)
          IN  /\ Len(requests') = n + 1
              /\ requests'[n + 1].requestId = last'.id
              /\ requests'[n + 1].responseBody = Some(parked.body)
              /\ requests'[n + 1].responseBodyMimeType = Some(parked.mimeType)
              /\ PendingIndex(pendingResponseBodies', last'.key) = 0
              /\ SubSeq(requests', 1, n) = requests]_vars

\* C2 witness: the second event was a requestStarted that took the body the
\* first event, a contentAvailable, had parked.
C2_Witness ==
    /\ last.kind = "requestStarted"
    /\ events = 2
    /\ Has(requests, last.id)
    /\ HasBody(requests[IndexOf(requests, last.id)])
    /\ pendingResponseBodies = <<>>
    /\ TimerCount(timers, last.key) > 0

\* C3 (as claimed): no record has responseBody set and
\* responseBodyUnavailable = true at once.
C3_NeverBoth ==
    \A i \in 1..Len(requests) :
        ~(HasBody(requests[i]) /\ requests[i].responseBodyUnavailable)

\* C4: a contentUnavailable event leaves every record that has a responseBody
\* exactly as it was (same body, flag not touched) and adds no record.
C4_UnavailableKeepsBody ==
    [][last'.kind = "contentUnavailable"
       => /\ Len(requests') = Len(requests)
          /\ \A i \in 1..Len(requests) :
                 HasBody(requests[i]) => requests'[i] = requests[i]]_vars

\* C4 witness: a contentUnavailable event was just processed for the match
\* key of a record that has a body and is not flagged unavailable.
C4_Witness ==
    /\ last.kind = "contentUnavailable"
    /\ \E i \in 1..Len(requests) :
           /\ matchKey(requests[i].url, requests[i].method) = last.key
           /\ HasBody(requests[i])
           /\ ~requests[i].responseBodyUnavailable

\* renderResponse shows the "not available" notice for the record
TreatedAsUnavailable(req) == ~HasBody(req) /\ req.responseBodyUnavailable

\* C5 (as claimed): start, contentUnavailable, then contentAvailable of the
\* same match key: once the retries are done the record has the delivered
\* body and is not treated as unavailable.
C5_EndsAvailable ==
    (events = 3 /\ DOMAIN timers = {}) =>
        /\ \E c \in Contents : requests[1].responseBody = Some(c.body)
        /\ ~TreatedAsUnavailable(requests[1])

\* C6 (as claimed): start, contentAvailable, then contentUnavailable of the
\* same match key: the record ends in the unavailable state.
C6_EndsUnavailable ==
    (events = 3 /\ DOMAIN timers = {}) => TreatedAsUnavailable(requests[1])

\* C6 (amended): when the content was attached to the record before the
\* contentUnavailable event arrives, the record stays available: its body is
\* the one delivered and responseBodyUnavailable is not set.
C6_AttachedStaysAvailable ==
    [][(last'.kind = "contentUnavailable" /\ OneRecord /\ HasBody(requests[1]))
       => /\ requests'[1].responseBody = requests[1].responseBody
          /\ ~requests'[1].responseBodyUnavailable]_vars

\* C6 witness: the third event was the contentUnavailable and the record
\* still has its body.
C6_Witness ==
    /\ last.kind = "contentUnavailable"
    /\ events = 3
    /\ OneRecord
    /\ HasBody(requests[1])
    /\ ~requests[1].responseBodyUnavailable

\* C7 (as claimed): right after Clear there is no record and no pending entry.
C7_ClearEmptiesBoth ==
    last.kind = "clear" => (requests = <<>> /\ pendingResponseBodies = <<>>)

\* C8 (as claimed): no body captured before the Clear is attached to a record
\* created after it (under SpecClearRetry every body is captured before the
\* Clear and every record is created after it).
C8_NoStaleBody == \A i \in 1..Len(requests) : ~HasBody(requests[i])

\* C9 (as claimed): right after Clear nothing is selected and the response
\* search state holds no match, no active match and no text.
C9_ClearInvalidates ==
    last.kind = "clear" =>
        /\ selectedRequestId = None
        /\ responseSearchState.matches = <<>>
        /\ responseSearchState.currentMatchIndex = -1
        /\ responseSearchState.originalText = <<>>

\* C10 (as claimed): while capture is off, no event of either channel changes
\* the record store or the pending buffer.
C10_OffMeansFrozen ==
    [][(~isCapturing /\ events' = events + 1)
       => UNCHANGED <<requests, pendingResponseBodies>>]_vars

\* C11: a header update (sent or received) for an id the Record Store does not
\* hold creates no record and leaves the store and the pending buffer as
\* they were.
C11_UnknownUpdateIsNoOp ==
    [][(last'.kind = "update" /\ events' = events + 1
        /\ ~Has(requests, last'.id))
       => UNCHANGED <<requests, pendingResponseBodies>>]_vars

\* C11 witness: a header update was just processed for an id that the
\* background still tracks and the store does not hold.
C11_Witness ==
    /\ last.kind = "update"
    /\ IsSome(requestData[last.id])
    /\ ~Has(requests, last.id)

\* C12: a requestStarted for an id already in the store adds no record and
\* leaves every record, the existing one included, as it was.
C12_DuplicateStartKeepsRecord ==
    [][(last'.kind = "requestStarted" /\ events' = events + 1
        /\ Has(requests, last'.id))
       => requests' = requests]_vars

\* C12 witness: the requestStarted just processed named another endpoint than
\* the one the record of its id was created with, and the record kept its url.
C12_Witness ==
    /\ last.kind = "requestStarted"
    /\ Has(requests, last.id)
    /\ LET req == requests[IndexOf(requests, last.id)]
       IN  /\ matchKey(req.url, req.method) # last.key
           /\ IsSome(requestData[last.id])
           /\ Val(requestData[last.id]).url # req.url

\* C13 (as claimed): a contentAvailable event writes its body into a record
\* only if the match keys agree and the record's start timestamp is less than
\* 10 seconds from the content's time, whatever was merged into the record
\* since its start.
C13_DirectMatchUsesStart ==
    [][\A ep \in Endpoints, t \in HarTimes, c \in Contents :
          ContentAvailable(ep, t, c) =>
              \A i \in 1..Len(requests) :
                  requests'[i].responseBody # requests[i].responseBody =>
                      /\ matchKey(requests[i].url, requests[i].method)
                             = matchKey(ep.url, ep.method)
                      /\ Abs(TimestampOf(requests[i]) - t * MsPerUnit)
                             < ToleranceMs]_vars

\* the record's key and start timestamp agree with a content event
StartMatches(req, ep, t) ==
    /\ matchKey(req.url, req.method) = matchKey(ep.url, ep.method)
    /\ Abs(TimestampOf(req) - t * MsPerUnit) < ToleranceMs

C15_SurvivesRetriesThenConsumed ==
    /\ (events = 1 /\ requests = <<>>) => Len(pendingResponseBodies) = 1
    /\ events = 2 =>
           /\ Len(requests) = 1
           /\ IF \E c \in Contents : requests[1].responseBody = Some(c.body)
              THEN pendingResponseBodies = <<>>
              ELSE /\ Len(pendingResponseBodies) = 1
                   /\ pendingResponseBodies[1].key
                          # matchKey(requests[1].url, requests[1].method)

\* C15 witness: both retries fired on an empty store and the requestStarted
\* that followed took the parked body.
C15_Witness ==
    /\ events = 2
    /\ last.kind = "requestStarted"
    /\ DOMAIN timers = {}
    /\ Len(requests) = 1
    /\ HasBody(requests[1])
    /\ pendingResponseBodies = <<>>

\* C16: a retry that fires when the buffer holds no entry under its key
\* leaves the record store and the pending buffer as they were.
C16_LateRetryIsNoOp ==
    [][(last'.kind = "retry" /\ timers' # timers
        /\ PendingIndex(pendingResponseBodies, last'.key) = 0)
       => UNCHANGED <<requests, pendingResponseBodies>>]_vars

\* C16 witness: one request and its content; the content was parked and has
\* been delivered, and the retry that fired last found its entry gone.
C16_Witness ==
    /\ last.kind = "retry"
    /\ events = 2
    /\ TimerCount(timers, last.key) = 0
    /\ PendingIndex(pendingResponseBodies, last.key) = 0
    /\ \E i \in 1..Len(requests) :
           /\ matchKey(requests[i].url, requests[i].method) = last.key
           /\ HasBody(requests[i])

\* the URL u with one more '/' at the end of its path
AppendSlash(u) ==
    <<u[1]>> \o Pathname(u) \o <<"/">> \o SubSeq(u, PathEnd(u), Len(u))

\* out is u's origin, u's path with at most its last '/' taken off and u's
\* query string, and nothing of the fragment; a root path keeps its '/'
NormalizeKeeps(u, out) ==
    /\ \E p \in {Pathname(u), SubSeq(Pathname(u), 1, Len(Pathname(u)) - 1)} :
           out = <<u[1]>> \o p \o Search(u)
    /\ Pathname(u) = <<"/">> => out = <<u[1], "/">> \o Search(u)
    /\ \A i \in 1..Len(out) : out[i] # HashToken

\* C17 (as claimed): for every parsable URL u with a path other than '/',
\* normalizeUrl of u with '/' appended to its path equals normalizeUrl(u);
\* a root path keeps its slash; origin, path and query string are kept and
\* the fragment is dropped.
C17_AnyPathSlashInsensitive ==
    (last.kind = "normalizeUrl" /\ UrlParses(last.id)) =>
        /\ Pathname(last.id) # <<"/">> =>
               normalizeUrl(AppendSlash(last.id)) = last.key
        /\ NormalizeKeeps(last.id, last.key)

\* C17 (amended): the same for every parsable URL u whose path does not
\* already end in '/': exactly one trailing slash is taken off.
C17_OneSlashStripped ==
    (last.kind = "normalizeUrl" /\ UrlParses(last.id)) =>
        /\ Pathname(last.id)[Len(Pathname(last.id))] # "/" =>
               normalizeUrl(AppendSlash(last.id)) = last.key
        /\ NormalizeKeeps(last.id, last.key)

\* C17 witness: normalizeUrl returned for a URL with a non-root path and a
\* fragment, and returns the same for that URL with '/' appended to the path.
C17_Witness ==
    /\ last.kind = "normalizeUrl"
    /\ last.id = <<Origin, "/", "x", HashToken>>
    /\ last.key = <<Origin, "/", "x">>
    /\ AppendSlash(last.id) = <<Origin, "/", "x", "/", HashToken>>
    /\ normalizeUrl(AppendSlash(last.id)) = last.key

\* C18: normalizeUrl returns every string that does not parse as a URL
\* unchanged.
C18_UnparsableUnchanged ==
    (last.kind = "normalizeUrl" /\ ~UrlParses(last.id)) => last.key = last.id

\* C18 witness: normalizeUrl returned for a relative reference and for nothing
\* else than what it was given.
C18_Witness ==
    /\ last.kind = "normalizeUrl"
    /\ last.id = <<"/", "x", "/">>
    /\ last.key = last.id

\* the hundreds digit a status bucket stands for
BucketDigit(value) ==
    CASE value = "2" -> 2 [] value = "3" -> 3 [] value = "4" -> 4
      [] value = "5" -> 5

\* C19 (as claimed): with status bucket d set, the list shows exactly the
\* records whose statusCode is present and has d00 <= statusCode < d00 + 100.
C19_BucketExact ==
    (last.kind = "ui" /\ filters.status # "") =>
        LET d == BucketDigit(filters.status)
        IN  {requestList[i] : i \in 1..Len(requestList)}
            = {requests[i].requestId : i \in
                  {k \in 1..Len(requests) :
                      /\ IsSome(requests[k].statusCode)
                      /\ d * 100 <= Val(requests[k].statusCode)
                      /\ Val(requests[k].statusCode) < d * 100 + 100}}

\* the time of the event that created the record: the start timestamp, or
\* for a record a completion event created, that event's timeStamp
MetaTime(req) ==
    IF IsSome(req.timestamp) THEN Val(req.timestamp) ELSE req.timeStamp

\* C20 (as claimed): the evaluator's result is in descending order of the
\* records' metadata timestamp, however a record was created, and records of
\* equal timestamp are in store insertion order.
C20_NewestFirstStable ==
    LET r == getFilteredRequests(requests, filters)
    IN  \A i, j \in 1..Len(r) :
            i < j =>
                \/ MetaTime(r[i]) > MetaTime(r[j])
                \/ /\ MetaTime(r[i]) = MetaTime(r[j])
                   /\ IndexOf(requests, r[i].requestId)
                          < IndexOf(requests, r[j].requestId)

\* C21: a call of getFilteredRequests leaves every record, every filter,
\* every pending entry and the selection as they were, and a second call on
\* the same store and filters returns the same sequence as the first.
C21_EvaluationIsPure ==
    [][last'.kind = "evaluate" =>
          /\ UNCHANGED <<requests, filters, pendingResponseBodies,
                         selectedRequestId>>
          /\ (last.kind = "evaluate" => last'.key = last.key)]_vars

C21_Witness ==
    /\ last.kind = "evaluate"
    /\ Len(requests) = 2
    /\ Len(last.key) = 2
    /\ last.key[1].requestId = requests[2].requestId

\* C22: when the free-text query does not compile as a regular expression,
\* the list shows exactly the records whose searchable blob contains the
\* query as a literal substring, letter case ignored.
C22_InvalidRegexFallsBack ==
    (last.kind = "ui" /\ filters.search # <<>> /\ ~RegexCompiles(filters.search))
    => {requestList[i] : i \in 1..Len(requestList)}
       = {requests[i].requestId : i \in
             {k \in 1..Len(requests) :
                 Includes(LowerSeq(Searchable(requests[k])),
                          LowerSeq(filters.search))}}

C22_Witness ==
    /\ last.kind = "ui"
    /\ filters.search = <<"[", "B">>
    /\ Len(requests) = 2
    /\ requestList = <<requests[1].requestId>>

\* k presses of Tab in the code block
RECURSIVE NextTimes(_, _)
NextTimes(S, k) ==
    IF k = 0 THEN S ELSE NextTimes(navigateToNextMatch(S), k - 1)

\* the panel with the active-match pointer put on match i
PointerOn(i) == [Panel EXCEPT !.search.currentMatchIndex = i]

\* C23: with n >= 1 matches, from the first match n 'next' steps lead back to
\* the first match and 'previous' leads to the last one; from any match,
\* 'previous' after 'next' and 'next' after 'previous' lead back to it.
C23_NavigationIsCyclic ==
    LET n == Len(responseSearchState.matches)
    IN  (SearchShown /\ n >= 1) =>
            /\ NextTimes(PointerOn(0), n).search.currentMatchIndex = 0
            /\ \A k \in 1..(n - 1) :
                   NextTimes(PointerOn(0), k).search.currentMatchIndex = k
            /\ navigateToPreviousMatch(PointerOn(0)).search.currentMatchIndex
                  = n - 1
            /\ responseSearchState.currentMatchIndex \in 0..(n - 1)
            /\ navigateToPreviousMatch(navigateToNextMatch(Panel))
                  .search.currentMatchIndex
                  = responseSearchState.currentMatchIndex
            /\ navigateToNextMatch(navigateToPreviousMatch(Panel))
                  .search.currentMatchIndex
                  = responseSearchState.currentMatchIndex

C23_Witness ==
    /\ SearchShown
    /\ Len(responseSearchState.matches) = 2
    /\ responseSearchState.currentMatchIndex = 1

\* the term stands in the text at 0-based position i, letter case ignored
Occurs(text, term, i) ==
    /\ i >= 0
    /\ i + Len(term) <= Len(text)
    /\ LowerSeq(SubSeq(text, i + 1, i + Len(term))) = LowerSeq(term)

\* C24: whatever the match list and the pointer were, a run of the response
\* search leaves a list made only of the new term's occurrences in the shown
\* text, left to right without overlap and missing none (none at all for a
\* term of blanks), and the pointer on the first match (0) when there is one
\* and on 'no match' (-1) otherwise.
C24_SearchReplacesMatches ==
    SearchShown =>
        \A term \in SearchTerms :
            LET R == performResponseSearch(Panel, term).search
                text == responseSearchState.originalText
                n == Len(R.matches)
            IN  /\ R.searchTerm = term
                /\ \A k \in 1..n :
                       /\ R.matches[k].length = Len(term)
                       /\ Occurs(text, term, R.matches[k].index)
                /\ \A k \in 1..(n - 1) :
                       R.matches[k].index + Len(term) <= R.matches[k + 1].index
                /\ IF IsBlank(term) THEN n = 0
                   ELSE \A i \in 0..Len(text) :
                            Occurs(text, term, i) =>
                                \E k \in 1..n :
                                    Abs(R.matches[k].index - i) < Len(term)
                /\ R.currentMatchIndex = IF n >= 1 THEN 0 ELSE -1

C24_Witness ==
    /\ SearchShown
    /\ responseSearchState.searchTerm = <<"k">>
    /\ responseSearchState.originalText = Body_text
    /\ responseSearchState.matches = <<>>
    /\ responseSearchState.currentMatchIndex = -1

\* C25: in every reachable state, a record with error = true also has
\* completed = true.
C25_ErrorImpliesCompleted ==
    \A i \in 1..Len(requests) : requests[i].error => requests[i].completed

C25_Witness ==
    /\ last.kind = "error"
    /\ \E i \in 1..Len(requests) :
           /\ requests[i].requestId = last.id
           /\ requests[i].error
           /\ requests[i].completed

MetadataKinds == {"requestStarted", "update", "complete", "error"}

\* C26: a metadata event (duplicate start, header update, completion, error)
\* leaves a record's responseBody, once set, in place with the same value;
\* and requestHeaders, responseHeaders and statusCode, once set, are still
\* set after every event that keeps the record.
C26_EnrichmentMonotonic ==
    [][\A i \in 1..Len(requests) :
          LET old == requests[i]
              j == IndexOf(requests', old.requestId)
          IN  /\ (last'.kind \in MetadataKinds /\ HasBody(old)) =>
                     (j # 0 /\ requests'[j].responseBody = old.responseBody)
              /\ j # 0 =>
                     /\ IsSome(old.requestHeaders)
                            => IsSome(requests'[j].requestHeaders)
                     /\ IsSome(old.responseHeaders)
                            => IsSome(requests'[j].responseHeaders)
                     /\ IsSome(old.statusCode)
                            => IsSome(requests'[j].statusCode)]_vars

C26_Witness ==
    /\ last.kind = "update"
    /\ \E i \in 1..Len(requests) :
           /\ requests[i].requestId = last.id
           /\ HasBody(requests[i])
           /\ IsSome(requests[i].requestHeaders)

\* C27: after a completion or error event the panel takes (capture is on),
\* the store holds a record of that id with completed = true; and a record
\* with completed = true is still in the store, with completed = true, after
\* every later event but Clear.
C27_CompletedStays ==
    [][/\ (last'.kind \in {"complete", "error"} /\ isCapturing) =>
              /\ Has(requests', last'.id)
              /\ requests'[IndexOf(requests', last'.id)].completed
       /\ last'.kind # "clear" =>
              \A i \in 1..Len(requests) :
                  requests[i].completed =>
                      /\ Has(requests', requests[i].requestId)
                      /\ requests'[IndexOf(requests', requests[i].requestId)]
                            .completed]_vars

C27_Witness ==
    /\ last.kind = "contentAvailable"
    /\ \E i \in 1..Len(requests) :
           requests[i].completed /\ HasBody(requests[i])

\* C28: a completion or error event for a record whose body is unknown, with
\* a pending entry stored under the match key of the record as the event's
\* metadata leaves it, gives the record that entry's body and mime type and
\* removes the entry; for a record that has a responseBody it leaves the
\* pending map as it was.
C28_CompletionConsumesPending ==
    [][(last'.kind \in {"complete", "error"} /\ Has(requests, last'.id)) =>
          LET old == requests[IndexOf(requests, last'.id)]
              new == requests'[IndexOf(requests', last'.id)]
              key == matchKey(new.url, new.method)
              p == PendingIndex(pendingResponseBodies, key)
          IN  /\ Has(requests', last'.id)
              /\ (~HasBody(old) /\ p # 0) =>
                     /\ new.responseBody = Some(pendingResponseBodies[p].body)
                     /\ new.responseBodyMimeType
                           = Some(pendingResponseBodies[p].mimeType)
                     /\ PendingIndex(pendingResponseBodies', key) = 0
                     /\ Len(pendingResponseBodies')
                           = Len(pendingResponseBodies) - 1
              /\ HasBody(old) =>
                     pendingResponseBodies' = pendingResponseBodies]_vars

C28_Witness ==
    /\ last.kind \in {"complete", "error"}
    /\ pendingResponseBodies = <<>>
    /\ TotalTimers(timers) > 0
    /\ \E i \in 1..Len(requests) :
           /\ requests[i].requestId = last.id
           /\ HasBody(requests[i])
           /\ IsSome(requests[i].timestamp)
           /\ requests[i].completed

\* C29 (as claimed): the comparison sites take a pending key and a record
\* for the same endpoint exactly when their match keys are equal, whatever
\* the URL; so a retry whose entry is still pending, run while the store holds
\* a record of that match key with unknown body, hands the entry's body to
\* such a record and removes the entry.
C29_RetryFindsKeyEqualRecord ==
    [][(/\ last'.kind = "retry"
        /\ timers' # timers
        /\ PendingIndex(pendingResponseBodies, last'.key) # 0
        /\ \E i \in 1..Len(requests) :
               /\ matchKey(requests[i].url, requests[i].method) = last'.key
               /\ ~HasBody(requests[i]))
       => /\ PendingIndex(pendingResponseBodies', last'.key) = 0
          /\ \E i \in 1..Len(requests) :
                 /\ matchKey(requests[i].url, requests[i].method) = last'.key
                 /\ ~HasBody(requests[i])
                 /\ HasBody(requests'[i])]_vars

\* the step wrote the entry's body into a record that had none
Delivered(entry) ==
    \E j \in 1..Len(requests') :
        /\ requests'[j].responseBody = Some(entry.body)
        /\ LET i == IndexOf(requests, requests'[j].requestId)
           IN  i = 0 \/ ~HasBody(requests[i])

\* C30 (as claimed): a key leaves the pending map only in a step that writes
\* its entry's body into a record, or by Clear.
C30_LeavesOnlyConsumed ==
    [][\A p \in 1..Len(pendingResponseBodies) :
          PendingIndex(pendingResponseBodies', pendingResponseBodies[p].key) = 0
          => \/ last'.kind = "clear"
             \/ Delivered(pendingResponseBodies[p])]_vars

\* the handlers that look a body up in the pending map: request start,
\* completion and error, retry, and the render of the response tab
LookupKinds == {"requestStarted", "complete", "error", "retry", "ui"}

\* positions in the next store of the records the step gave a body to
GainedBody ==
    {j \in 1..Len(requests') :
        /\ HasBody(requests'[j])
        /\ LET i == IndexOf(requests, requests'[j].requestId)
           IN  i = 0 \/ ~HasBody(requests[i])}

\* C31: a step of a lookup site that writes a body into a record writes it
\* into one record only, the body and mime type are those of one pending
\* entry, and that entry is gone from the pending map after the step.
C31_ConsumedOnce ==
    [][(last'.kind \in LookupKinds /\ GainedBody # {}) =>
          /\ Cardinality(GainedBody) = 1
          /\ \E j \in GainedBody, p \in 1..Len(pendingResponseBodies) :
                 /\ requests'[j].responseBody
                       = Some(pendingResponseBodies[p].body)
                 /\ requests'[j].responseBodyMimeType
                       = Some(pendingResponseBodies[p].mimeType)
                 /\ pendingResponseBodies'
                       = RemoveAt(pendingResponseBodies, p)]_vars

C31_Witness ==
    /\ last.kind = "ui"
    /\ detailContent = "response_loading"
    /\ pendingResponseBodies = <<>>
    /\ TotalTimers(timers) > 0
    /\ IsSome(selectedRequestId)
    /\ Has(requests, Val(selectedRequestId))
    /\ HasBody(requests[IndexOf(requests, Val(selectedRequestId))])

\* C32 (as claimed): a contentUnavailable event processed while some record
\* of the event's match key has an unknown body leaves such a record with
\* responseBodyUnavailable = true, also when an earlier record of that match
\* key has a body.
C32_UnavailableMarksUnknown ==
    [][(/\ last'.kind = "contentUnavailable"
        /\ \E i \in 1..Len(requests) :
               /\ matchKey(requests[i].url, requests[i].method) = last'.key
               /\ ~HasBody(requests[i]))
       => \E i \in 1..Len(requests) :
              /\ matchKey(requests[i].url, requests[i].method) = last'.key
              /\ ~HasBody(requests[i])
              /\ requests'[i].responseBodyUnavailable]_vars

\* the records the loop of captureResponseBody finds matching a content event
\* of match key `key` and HAR time t
MatchSet(key, t) ==
    {i \in 1..Len(requests) :
        matchesRequest(requests[i], SubSeq(key, 1, Len(key) - 2),
                       key[Len(key)], t)}

\* C33: a contentAvailable event that one or more records match writes its
\* body to the first of them in insertion order, and to no other record.
C33_FirstMatchWins ==
    [][last'.kind = "contentAvailable" =>
          \E t \in HarTimes :
              LET M == MatchSet(last'.key, t)
              IN  IF M = {} THEN requests' = requests
                  ELSE /\ Len(requests') = Len(requests)
                       /\ HasBody(requests'[Min(M)])
                       /\ \A i \in 1..Len(requests) :
                              i # Min(M) => requests'[i] = requests[i]
                       /\ pendingResponseBodies' = pendingResponseBodies]_vars

C33_Witness ==
    /\ last.kind = "contentAvailable"
    /\ Len(requests) = 2
    /\ matchKey(requests[1].url, requests[1].method) = last.key
    /\ matchKey(requests[2].url, requests[2].method) = last.key
    /\ HasBody(requests[1])
    /\ ~HasBody(requests[2])

\* C34 (as claimed): normalizing what normalizeUrl returned gives the same
\* string again, for every input string.
C34_NormalizeIdempotent ==
    last.kind = "normalizeUrl" => normalizeUrl(last.key) = last.key

C36_OnlyStartCreates ==
    \A i \in 1..Len(requests) : IsSome(requests[i].timestamp)

\* C37: in every reachable state selectedRequestId is null or the id of a
\* record of the store.
C37_SelectionInStore ==
    IsSome(selectedRequestId) => Has(requests, Val(selectedRequestId))

C37_Witness ==
    /\ last.kind = "complete"
    /\ selectedRequestId = Some(last.id)
    /\ detailOpen
    /\ Len(requests) = 2

\* C38: the background sends an update, completion or error message for an
\* id only while it holds the id; it comes to hold an id only by sending the
\* id's NETWORK_REQUEST, and ceases to hold it with the id's completion or
\* error message, which every such message brings about; nothing else
\* changes what the background holds.
C38_LifecycleOrder ==
    [][/\ events' = events => requestData' = requestData
       /\ events' # events =>
              /\ last'.kind \in {"update", "complete", "error"}
                     => IsSome(requestData[last'.id])
              /\ last'.kind \in {"complete", "error"}
                     => requestData'[last'.id] = None
              /\ \A id \in Ids :
                     /\ (requestData[id] = None /\ requestData'[id] # None)
                            => (last'.kind = "requestStarted" /\ last'.id = id)
                     /\ (requestData[id] # None /\ requestData'[id] = None)
                            => (last'.kind \in {"complete", "error"}
                                /\ last'.id = id)
                     /\ requestData'[id] # requestData[id] => last'.id = id]_vars

C38_Witness ==
    /\ last.kind = "complete"
    /\ events = 3
    /\ requestData[last.id] = None
    /\ last.id \in retired
    /\ \E i \in 1..Len(requests) :
           /\ requests[i].requestId = last.id
           /\ IsSome(requests[i].requestHeaders)
           /\ requests[i].completed

\* C39: in every reachable state currentMatchIndex is -1 or the 0-based
\* position of an entry of the match list.
C39_PointerInRange ==
    \/ responseSearchState.currentMatchIndex = -1
    \/ /\ 0 <= responseSearchState.currentMatchIndex
       /\ responseSearchState.currentMatchIndex
             < Len(responseSearchState.matches)

C39_Witness ==
    /\ SearchShown
    /\ responseSearchState.searchTerm = <<"a">>
    /\ Len(responseSearchState.matches) = 2
    /\ responseSearchState.currentMatchIndex = 0
    /\ Len(requests) = 2
====
